---- MODULE Spec2Model ----
(***************************************************************************)
(* State-machine model of the document-assistant single-page UI:           *)
(*   frontend/src/App.tsx                     (root state container)       *)
(*   frontend/src/components/ProjectPanel     (create / delete / upload)   *)
(*   frontend/src/components/ChatPanel        (send query, reply handling) *)
(*   frontend/src/services/*.js               (HTTP access functions)      *)
(* The React state of App is the client state; every HTTP call is a        *)
(* request record in the bag `inflight`.  The backend answers a fetch or a  *)
(* chat query in one step and the continuation after the `await` runs in a *)
(* later step, in any order relative to the other requests; a request      *)
(* whose reply the application never reads settles in a single step.       *)
(***************************************************************************)
EXTENDS Integers, Sequences, FiniteSets, Bags

\* ------------------------------------------------------------------ bounds
MaxFiles == 2         \* files in one drop
MaxActions == 2       \* user actions (select, delete, create, drop, send, click) in a run

\* ------------------------------------------------------------ vocabulary
Null == 0                              \* selectedProject === null (project ids are >= 1)
NoOp == [op |-> "mount", pid |-> Null, n |-> 0, res |-> ""]

\* Source lists a chat reply can carry (types/index.ts Source, abstracted to ids).
SourceChoices == {<< >>, <<"s1">>}

VARIABLES
  \* --- App.tsx useState (lines 185-191)
  projects,          \* Project[]: sequence of [id, file_count]
  selectedProject,   \* id of the selected Project, or Null
  selectedSame,      \* the selected Project object is (===) an element of `projects`
  documents,         \* Document[]: sequence of [id, projectId, status]
  messages,          \* ChatMessage[]
  isLoading,         \* chat loading flag
  currentSources,    \* Source[] shown by the source panel
  isSourcePanelOpen, \* the source panel is open
  \* --- event loop
  inflight,          \* bag of HTTP requests whose continuation has not run yet
  timers,            \* pending setTimeout callbacks of handleFileUpload (sets of doc ids)
  uncaught,          \* the function whose error escaped uncaught in the last step, or ""
  \* --- backend (REST service behind the HTTP access functions)
  bProjects, bDocs, bHistory,
  bNextProject,      \* id the backend gives the next created project
  bNextId,           \* id the backend gives the next document or chat message
  \* --- fresh-id counters
  budget,            \* user actions a run may take
  actions,           \* user actions so far
  localDocs,         \* optimistic Document ids handed out (doc-<time>-<random>)
  chats,             \* chat queries sent so far (msg-<time> ids)
  \* --- history variables for the properties
  lastOp,            \* the last client step: [op, pid, n, res]
  deleted,           \* ids handleProjectDelete was called with
  track              \* create -> refresh -> delete bookkeeping

appVars == <<projects, selectedProject, selectedSame, documents, messages, isLoading>>
panelVars == <<currentSources, isSourcePanelOpen>>
backendVars == <<bProjects, bDocs, bHistory, bNextProject, bNextId>>
counterVars == <<actions, localDocs, chats>>
vars == <<appVars, panelVars, inflight, timers, uncaught, backendVars, budget, counterVars, lastOp,
          deleted, track>>

Ids(s) == {s[i].id : i \in DOMAIN s}

\* ------------------------------------------------------- backend at start
\* Two projects exist before the page is loaded; project 1 has one document and
\* a chat history, project 2 has one document and no history.
InitialProjects == <<[id |-> 1, file_count |-> 1], [id |-> 2, file_count |-> 1]>>
ProjectIds == 1..(Len(InitialProjects) + MaxActions)

BackendMsg(i, pid, role) ==
  [id |-> i, projectId |-> pid, role |-> role, content |-> "h", timestamp |-> i,
   sources |-> IF role # "assistant" THEN << >> ELSE IF i = 2 THEN <<"s1">> ELSE <<"s2">>]

\* Project 1's history at page load: two conversations, returned newest first
\* (timestamps not ascending across conversations).  Project 2's: a conversation
\* of one message, an empty conversation, and a conversation of two messages.
InitialHistory(p) ==
  IF p = 1
  THEN << [messages |-> <<BackendMsg(3, 1, "user"), BackendMsg(4, 1, "assistant")>>],
          [messages |-> <<BackendMsg(1, 1, "user"), BackendMsg(2, 1, "assistant")>>] >>
  ELSE IF p = 2
  THEN << [messages |-> <<BackendMsg(3, 2, "user")>>],
          [messages |-> << >>],
          [messages |-> <<BackendMsg(1, 2, "user"), BackendMsg(2, 2, "assistant")>>] >>
  ELSE << >>

Request(kind, pid, arg) ==
  [kind |-> kind, pid |-> pid, arg |-> arg, stage |-> "sent", data |-> << >>]

Loaded ==
  /\ projects = << >>
  /\ selectedProject = Null
  /\ selectedSame = FALSE
  /\ documents = << >>
  /\ messages = << >>
  /\ isLoading = FALSE
  /\ currentSources = << >>
  /\ isSourcePanelOpen = FALSE
  /\ uncaught = ""
  /\ inflight = SetToBag({Request("list", Null, "")})   \* useEffect(() => fetchProjects(), [])
  /\ timers = {}
  /\ bProjects = InitialProjects
  /\ bDocs = [p \in ProjectIds |->
                IF p \in Ids(InitialProjects)
                THEN <<[id |-> p, projectId |-> p, filename |-> "old", status |-> "ready"]>>
                ELSE << >>]
  /\ bNextProject = Len(InitialProjects) + 1
  /\ bNextId = 5
  /\ bHistory = [p \in ProjectIds |-> InitialHistory(p)]
  /\ actions = 0 /\ localDocs = 0 /\ chats = 0
  /\ lastOp = NoOp
  /\ deleted = {}
  /\ track = [stage |-> "idle", before |-> << >>, id |-> Null, sync |-> FALSE]

Init == Loaded /\ budget = MaxActions

\* The page one user action later: the project list has arrived, project 1 was
\* selected and its documents and its history have arrived, in that order.
\* MaxActions further user actions are explored from here.
ProjectOpened ==
  /\ projects = InitialProjects
  /\ selectedProject = InitialProjects[1].id
  /\ selectedSame = TRUE
  /\ documents = <<[id |-> 1, projectId |-> 1, filename |-> "old", status |-> "ready"]>>
  /\ messages = <<BackendMsg(3, 1, "user"), BackendMsg(4, 1, "assistant"),
                  BackendMsg(1, 1, "user"), BackendMsg(2, 1, "assistant")>>
  /\ isLoading = FALSE
  /\ currentSources = << >>
  /\ isSourcePanelOpen = FALSE
  /\ uncaught = ""
  /\ inflight = EmptyBag
  /\ timers = {}
  /\ bProjects = InitialProjects
  /\ bDocs = [p \in ProjectIds |->
                IF p \in Ids(InitialProjects)
                THEN <<[id |-> p, projectId |-> p, filename |-> "old", status |-> "ready"]>>
                ELSE << >>]
  /\ bNextProject = Len(InitialProjects) + 1
  /\ bNextId = 5
  /\ bHistory = [p \in ProjectIds |-> InitialHistory(p)]
  /\ actions = 1 /\ localDocs = 0 /\ chats = 0
  /\ lastOp = [op |-> "history", pid |-> 1, n |-> 2, res |-> "ok"]
  /\ deleted = {}
  /\ track = [stage |-> "idle", before |-> << >>, id |-> Null, sync |-> FALSE]

InitThread == ProjectOpened /\ budget = MaxActions + 1

\* ----------------------------------------------------------------- helpers
Op(op, pid, n, res) == [op |-> op, pid |-> pid, n |-> n, res |-> res]

\* The requests `reqs` (in call order) join the pending ones.
RECURSIVE Dispatch(_, _)
Dispatch(pending, reqs) ==
  IF reqs = << >> THEN pending ELSE Dispatch(pending (+) SetToBag({Head(reqs)}), Tail(reqs))
\* The continuation of request r has run.
Done(pending, r) == pending (-) SetToBag({r})
Pending(kind) == {r \in BagToSet(inflight) : r.kind = kind}

RECURSIVE TrimLeft(_)
TrimLeft(s) == IF s # << >> /\ Head(s) = " " THEN TrimLeft(Tail(s)) ELSE s
RECURSIVE TrimRight(_)
TrimRight(s) ==
  IF s # << >> /\ s[Len(s)] = " " THEN TrimRight(SubSeq(s, 1, Len(s) - 1)) ELSE s
\* String.prototype.trim
Trim(s) == TrimRight(TrimLeft(s))

IdleTrack == [stage |-> "idle", before |-> << >>, id |-> Null, sync |-> FALSE]
\* A step outside the create -> refresh -> delete chain: a change of the local
\* or of the backend's project list ends the bookkeeping.
TrackOther(ps, bps) ==
  IF track.stage # "idle" /\ (ps # projects \/ bps # bProjects) THEN IdleTrack ELSE track

\* ------------------------------------------------ App.tsx: project selection
\* setMessages(prev => prev.filter(m => m.projectId === project.id))
FilterMessagesFor(ms, pid) == SelectSeq(ms, LAMBDA m : m.projectId = pid)

\* Variant: only the documents are fetched on a change of the selection.
SelectionEffectDocumentsOnly(changed, pid) ==
  IF changed /\ pid # Null THEN <<Request("docs", pid, "")>> ELSE << >>

\* useEffect([selectedProject]): runs when the selectedProject object changed
\* and is not null; issues the documents fetch, then the history fetch.
SelectionEffect(changed, pid) ==
  IF changed /\ pid # Null
  THEN <<Request("docs", pid, ""), Request("history", pid, "")>>
  ELSE << >>

\* Click on the i-th row of the project list.
handleProjectSelect(i) ==
  LET project == projects[i]
      changed == ~(selectedProject = project.id /\ selectedSame)
  IN /\ actions < budget
     /\ actions' = actions + 1
     /\ selectedProject' = project.id
     /\ selectedSame' = TRUE
     /\ messages' = FilterMessagesFor(messages, project.id)
     /\ inflight' = Dispatch(inflight, SelectionEffect(changed, project.id))
     /\ uncaught' = ""
     /\ lastOp' = Op("select", project.id, 0, IF changed THEN "changed" ELSE "same")
     /\ UNCHANGED <<budget, panelVars, projects, documents, isLoading, timers, backendVars, localDocs, chats,
                    deleted, track>>

\* ------------------------------------------------- App.tsx: project deletion
RemoveProject(ps, projectId) == SelectSeq(ps, LAMBDA p : p.id # projectId)
RemoveProjectDocuments(ds, projectId) == SelectSeq(ds, LAMBDA d : d.projectId # projectId)
RemoveProjectMessages(ms, projectId) == SelectSeq(ms, LAMBDA m : m.projectId # projectId)
\* Variant: any delete clears the selection.
SelectionClearedByDelete(sel, projectId) == Null
SelectionAfterDelete(sel, projectId) == IF sel = projectId THEN Null ELSE sel
\* const response = DeleteProjects({project_id: projectId})
DeleteRequests(projectId) == <<Request("delete", projectId, "")>>

\* Click on the delete button of the i-th row of the project list.
handleProjectDelete(i) ==
  LET projectId == projects[i].id
  IN /\ actions < budget
     /\ actions' = actions + 1
     /\ projects' = RemoveProject(projects, projectId)
     /\ documents' = RemoveProjectDocuments(documents, projectId)
     /\ messages' = RemoveProjectMessages(messages, projectId)
     /\ inflight' = Dispatch(inflight, DeleteRequests(projectId))
     /\ selectedProject' = SelectionAfterDelete(selectedProject, projectId)
     /\ selectedSame' = (selectedSame /\ selectedProject' # Null)
     /\ uncaught' = ""
     /\ lastOp' = Op("delete", projectId, 0,
                     IF selectedProject = projectId THEN "selected" ELSE "other")
     /\ deleted' = deleted \cup {projectId}
     /\ track' = IF track.stage = "refreshed" /\ track.id = projectId
                 THEN [track EXCEPT !.stage = "deleted"]
                 ELSE TrackOther(projects', bProjects)
     /\ UNCHANGED <<budget, panelVars, isLoading, timers, backendVars, localDocs, chats>>

\* ------------------------------------- ProjectPanel.tsx: project creation
\* Texts the project-name box can hold: sequences of characters.
ProjectNames == {<<" ", " ">>, <<" ", "Q">>}

\* if (newProject.name.trim())
CreateAllowed(name) == Trim(name) # << >>

\* Click on Create with `name` in the box: AddProjects(newProject) is awaited
\* (the record of the form is sent as entered).
handleCreateProject(name) ==
  /\ CreateAllowed(name)
  /\ actions < budget
  /\ inflight' = Dispatch(inflight, <<Request("create", Null, name)>>)
  /\ actions' = actions + 1
  /\ uncaught' = ""
  /\ lastOp' = Op("create", Null, 0, "")
  /\ track' = IF track.stage = "idle" /\ Pending("create") \cup Pending("list") = {}
              THEN [stage |-> "submitted", before |-> projects, id |-> Null,
                    sync |-> (projects = bProjects)]
              ELSE IdleTrack
  /\ UNCHANGED <<budget, panelVars, appVars, timers, backendVars, localDocs, chats, deleted>>

\* ------------------------------------------------------ App.tsx: file upload
\* The files of a drop of n files.
Files(n) == [k \in 1..n |-> [name |-> IF k = 1 THEN "f1" ELSE IF k = 2 THEN "f2" ELSE "f3"]]

\* Variant: only the first file of the drop gets a record.
NewDocumentsFirstOnly(files, projectId, base) ==
  <<[id |-> -(base + 1), projectId |-> projectId, filename |-> files[1].name,
     status |-> "processing"]>>

\* const newDocuments = files.map(file => ({id: `doc-...`, projectId, ..., status: 'processing'}))
NewDocuments(files, projectId, base) ==
  [k \in 1..Len(files) |->
     [id |-> -(base + k), projectId |-> projectId, filename |-> files[k].name,
      status |-> "processing"]]

\* One FormData built from files[0] and one uploadDocumentQuery call.
UploadRequests(files, projectId) == <<Request("upload", projectId, files[1].name)>>

\* Variant: the count goes up by one per drop.
BumpFileCountByOne(ps, projectId, n) ==
  [k \in DOMAIN ps |->
     IF ps[k].id = projectId THEN [ps[k] EXCEPT !.file_count = @ + 1] ELSE ps[k]]

\* setProjects(prev => prev.map(p => p.id === projectId ? {...p, file_count: p.file_count + files.length} : p))
BumpFileCount(ps, projectId, n) ==
  [k \in DOMAIN ps |->
     IF ps[k].id = projectId THEN [ps[k] EXCEPT !.file_count = @ + n] ELSE ps[k]]

\* Variant: a record of the upload that is no longer in the list is put back.
MarkReadyOrRestore(ds, ids) ==
  LET marked == [k \in DOMAIN ds |->
                   IF ds[k].id \in ids THEN [ds[k] EXCEPT !.status = "ready"] ELSE ds[k]]
      missing == ids \ Ids(ds)
  IN IF missing = {} THEN marked
     ELSE Append(marked, [id |-> CHOOSE i \in missing : TRUE, projectId |-> Null,
                          filename |-> "f1", status |-> "ready"])

\* setDocuments(prev => prev.map(doc => newDocuments.find(d => d.id === doc.id) ? {...doc, status: 'ready'} : doc))
MarkReady(ds, ids) ==
  [k \in DOMAIN ds |-> IF ds[k].id \in ids THEN [ds[k] EXCEPT !.status = "ready"] ELSE ds[k]]

\* A drop of n accepted files on the uploader of the selected project.
\* `if (!response)` tests a Promise, which is never falsy: no early return.
handleFileUpload(n) ==
  LET projectId == selectedProject
      files == Files(n)
      newDocuments == NewDocuments(files, projectId, localDocs)
  IN /\ selectedProject # Null                     \* the uploader is rendered only then
     /\ actions < budget
     /\ inflight' = Dispatch(inflight, UploadRequests(files, projectId))
     /\ documents' = documents \o newDocuments
     /\ projects' = BumpFileCount(projects, projectId, Len(files))
     /\ selectedSame' = (selectedSame /\ projectId \notin Ids(projects))
     /\ timers' = timers \cup {Ids(newDocuments)}
     /\ actions' = actions + 1
     /\ localDocs' = localDocs + n
     /\ uncaught' = ""
     /\ lastOp' = Op("upload", projectId, n, "")
     /\ track' = TrackOther(projects', bProjects)
     /\ UNCHANGED <<budget, panelVars, selectedProject, messages, isLoading, backendVars, chats, deleted>>

\* Variant: a drop without files sends a request.
handleFileUploadEmptyDispatching ==
  /\ selectedProject # Null
  /\ actions < budget
  /\ actions' = actions + 1
  /\ inflight' = Dispatch(inflight, <<Request("upload", selectedProject, "undefined")>>)
  /\ uncaught' = ""
  /\ lastOp' = Op("upload", selectedProject, 0, "")
  /\ UNCHANGED <<budget, appVars, panelVars, timers, backendVars, localDocs, chats, deleted, track>>

\* A drop in which no file was accepted: react-dropzone calls onDrop with an
\* empty list and onDrop passes it on.  newDocuments is empty, and
\* formData.append('filename', files[0].name) throws a TypeError (files[0] is
\* undefined) before uploadDocumentQuery or any setter is called.
handleFileUploadEmpty ==
  /\ selectedProject # Null                     \* the uploader is rendered only then
  /\ actions < budget
  /\ actions' = actions + 1
  /\ uncaught' = "handleFileUpload"
  /\ lastOp' = Op("upload", selectedProject, 0, "err")
  /\ UNCHANGED <<budget, appVars, panelVars, inflight, timers, backendVars, localDocs, chats, deleted,
                 track>>

\* The 2000 ms timer of one upload fires.
uploadTimer(ids) ==
  /\ ids \in timers
  /\ documents' = MarkReady(documents, ids)
  /\ timers' = timers \ {ids}
  /\ uncaught' = ""
  /\ lastOp' = Op("timer", Null, Cardinality(ids), "")
  /\ UNCHANGED <<budget, panelVars, projects, selectedProject, selectedSame, messages, isLoading, inflight,
                 backendVars, counterVars, deleted, track>>

\* --------------------------------------- ProjectPanel.tsx: document deletion
\* Click on the delete button of the k-th row of the documents list (rendered
\* for the selected project): the handler calls the prop handleDeleteDocument,
\* which App does not pass, so the call throws a TypeError before anything else
\* happens; deleteDocument of the document service is called by nobody.
onClickDeleteDocument(k) ==
  /\ selectedProject # Null
  /\ actions < budget
  /\ actions' = actions + 1
  /\ uncaught' = "handleDeleteDocument"
  /\ lastOp' = Op("deleteDocument", selectedProject, documents[k].id, "err")
  /\ UNCHANGED <<budget, appVars, panelVars, inflight, timers, backendVars, localDocs, chats, deleted,
                 track>>

\* ------------------------------------------- ChatPanel.tsx / App.tsx: send
\* Texts the input box can hold: sequences of characters.
Inputs == {<<" ">>, <<" ", "q">>}

\* App.handleSendMessage: the user message
UserMessage(content, projectId, k) ==
  [id |-> -k, projectId |-> projectId, role |-> "user", content |-> content,
   timestamp |-> -k, sources |-> << >>]

\* ChatPanel.handleSend: one postChatQuery(payload) call
ChatRequests(inputMessage, selectedProjectId) ==
  <<Request("chat", selectedProjectId, inputMessage)>>

\* Variant: the loading flag is not looked at.
SendAllowedWhileLoading(inputMessage, loading) == Trim(inputMessage) # << >>
\* if (inputMessage.trim() && !isLoading)
SendAllowed(inputMessage, loading) == Trim(inputMessage) # << >> /\ ~loading

\* Click on Send (or Enter) with `inputMessage` in the box; the controls are
\* disabled while isLoading or while no project is selected.
handleSend(inputMessage) ==
  /\ selectedProject # Null
  /\ SendAllowed(inputMessage, isLoading)
  /\ actions < budget
  /\ isLoading' = TRUE                                              \* handleSendMessage
  /\ messages' = Append(messages, UserMessage(inputMessage, selectedProject, chats + 1))
  /\ inflight' = Dispatch(inflight, ChatRequests(inputMessage, selectedProject))
  /\ chats' = chats + 1
  /\ actions' = actions + 1
  /\ uncaught' = ""
  /\ lastOp' = Op("send", selectedProject, 0, "")
  /\ UNCHANGED <<budget, panelVars, projects, selectedProject, selectedSame, documents, timers, backendVars,
                 localDocs, deleted, track>>


\* ------------------------------------------------- App.tsx: source panel
\* Variant: a click leaves the panel's content as it is.
SourcesKept(prev, sources) == prev
\* setCurrentSources(sources)
SourcesClicked(prev, sources) == sources

\* Variant: every message has a source link.
SourceLinkShownAlways(message) == TRUE
\* MessageBubble: {!isUser && message.sources && message.sources.length > 0 && (<button ...>)}
SourceLinkShown(message) == message.role # "user" /\ Len(message.sources) > 0

\* Click on the source link of the k-th message of the thread.
handleSourceClick(k) ==
  /\ SourceLinkShown(messages[k])
  /\ actions < budget
  /\ actions' = actions + 1
  /\ currentSources' = SourcesClicked(currentSources, messages[k].sources)
  /\ isSourcePanelOpen' = TRUE
  /\ uncaught' = ""
  /\ lastOp' = Op("sourceClick", messages[k].projectId, k,
                  IF currentSources = << >> THEN "first"
                  ELSE IF currentSources = messages[k].sources THEN "same" ELSE "replaced")
  /\ UNCHANGED <<budget, appVars, inflight, timers, backendVars, localDocs, chats, deleted, track>>

\* Click on the close button of the open source panel:
\* onClose={() => setIsSourcePanelOpen(false)}
onClose ==
  /\ isSourcePanelOpen
  /\ isSourcePanelOpen' = FALSE
  /\ uncaught' = ""
  /\ lastOp' = Op("closeSources", Null, 0, "")
  /\ UNCHANGED <<budget, appVars, currentSources, inflight, timers, backendVars, counterVars, deleted,
                 track>>

\* ------------------------------------------------------------- the backend
\* The REST service of section 6 of the specification: it keeps the projects,
\* each project's documents and each project's conversations.  Answering a
\* fetch or a chat query fixes the reply body; the continuation runs later.
Settle(r, data) ==
  Done(inflight, r) (+) SetToBag({[r EXCEPT !.stage = "ok", !.data = data]})

\* GET /api/projects
BackendList(r) ==
  /\ r.stage = "sent" /\ r.kind = "list"
  /\ inflight' = Settle(r, bProjects)
  /\ UNCHANGED <<budget, panelVars, appVars, timers, backendVars, counterVars, lastOp, uncaught,
                 deleted, track>>

\* GET /api/documents/project/{project_id}
BackendDocs(r) ==
  /\ r.stage = "sent" /\ r.kind = "docs"
  /\ r.pid \in Ids(bProjects)
  /\ inflight' = Settle(r, bDocs[r.pid])
  /\ UNCHANGED <<budget, panelVars, appVars, timers, backendVars, counterVars, lastOp, uncaught,
                 deleted, track>>

\* GET /api/chat/history/{project_id}
BackendHistory(r) ==
  /\ r.stage = "sent" /\ r.kind = "history"
  /\ r.pid \in Ids(bProjects)
  /\ inflight' = Settle(r, bHistory[r.pid])
  /\ UNCHANGED <<budget, panelVars, appVars, timers, backendVars, counterVars, lastOp, uncaught,
                 deleted, track>>

\* POST /api/chat/query: the reply body; a successful answer is also stored as
\* a conversation of the project's history.
BackendChat(r, success, sources) ==
  LET response == [success |-> success, conversation_id |-> bNextId + 1, response |-> "a",
                   message_metadata |-> [project_id |-> r.pid, timestamp |-> bNextId + 1],
                   sources |-> sources]
      stored == [messages |->
                   << [id |-> bNextId, projectId |-> r.pid, role |-> "user",
                       content |-> r.arg, timestamp |-> bNextId, sources |-> << >>],
                      [id |-> bNextId + 1, projectId |-> r.pid, role |-> "assistant",
                       content |-> "a", timestamp |-> bNextId + 1, sources |-> sources] >>]
  IN /\ r.stage = "sent" /\ r.kind = "chat"
     /\ r.pid \in Ids(bProjects)
     /\ success \/ sources = << >>
     /\ bHistory' = IF success THEN [bHistory EXCEPT ![r.pid] = Append(@, stored)]
                    ELSE bHistory
     /\ bNextId' = IF success THEN bNextId + 2 ELSE bNextId
     /\ inflight' = Settle(r, <<response>>)
     /\ UNCHANGED <<budget, panelVars, appVars, timers, bProjects, bDocs, bNextProject, counterVars, lastOp,
                    uncaught, deleted, track>>

\* POST /api/projects
BackendCreated(ok) ==
  IF ok THEN Append(bProjects, [id |-> bNextProject, file_count |-> 0]) ELSE bProjects

\* DELETE /api/projects/{project_id}
BackendDeleted(ok, pid) ==
  IF ok THEN SelectSeq(bProjects, LAMBDA p : p.id # pid) ELSE bProjects

\* POST /api/documents/upload?project_id={id}: stores the one transmitted file
BackendUploaded(ok, pid) ==
  IF ok
  THEN [k \in DOMAIN bProjects |->
          IF bProjects[k].id = pid
          THEN [bProjects[k] EXCEPT !.file_count = @ + 1] ELSE bProjects[k]]
  ELSE bProjects

\* --------------------------------------------- continuations of the awaits
\* The outcome of an awaited HTTP access function (services/*.js): the reply
\* body (return response.data), or the re-thrown error when the request fails
\* before the backend answers it.
CanSettle(r, ok) == IF ok THEN r.stage = "ok" ELSE r.stage = "sent"

\* The outcome of a call of an HTTP access function: the reply body returned, or
\* the error thrown.  The reply bodies of the backend are JSON arrays and
\* objects, which are truthy.
Returned(body) == [kind |-> "return", body |-> body]
Thrown == [kind |-> "throw", body |-> << >>]

\* Variant: the failure is turned into a null result.
getProjectsQueryNullOnError(ok, body) ==
  IF ok THEN Returned(body) ELSE [kind |-> "null", body |-> << >>]

\* try { const response = await axios...; return response.data }
\* catch (error) { console.error(...); throw error }
getProjectsQuery(ok, body) == IF ok THEN Returned(body) ELSE Thrown
AddProjects(ok, body) == IF ok THEN Returned(body) ELSE Thrown
DeleteProjects(ok, body) == IF ok THEN Returned(body) ELSE Thrown
postChatQuery(ok, body) == IF ok THEN Returned(body) ELSE Thrown
getChatHistory(ok, body) == IF ok THEN Returned(body) ELSE Thrown
getProjectDocumentsQuery(ok, body) == IF ok THEN Returned(body) ELSE Thrown
uploadDocumentQuery(ok, body) == IF ok THEN Returned(body) ELSE Thrown
deleteDocument(ok, body) == IF ok THEN Returned(body) ELSE Thrown

\* if (response): the caller's test of the awaited result
Truthy(response) == response.kind = "return"
Threw(response) == response.kind = "throw"
\* The branch the caller takes: the result branch, the catch or propagation of
\* the error, or the falsy-result branch.
Res(response) ==
  IF Truthy(response) THEN "ok" ELSE IF Threw(response) THEN "err" ELSE "falsy"

\* Variant: the fetched projects are merged into the list instead of replacing it.
SetProjectsMerged(prev, ok, response) == IF ok THEN prev \o response ELSE prev

\* fetchProjects: const response = await getProjectsQuery(); if (response) setProjects(response)
\* (nothing is set when getProjectsQuery throws).  There is no try/catch: the
\* error of getProjectsQuery rejects the promise of fetchProjects, which no
\* caller awaits or catches.
fetchProjectsError(ok) == IF ok THEN "" ELSE "fetchProjects"
SetProjectsFrom(prev, ok, response) == IF ok THEN response ELSE prev

fetchProjectsResume(r, ok) ==
  LET response == getProjectsQuery(ok, r.data)
  IN
  /\ r.kind = "list" /\ CanSettle(r, ok)
  /\ projects' = SetProjectsFrom(projects, Truthy(response), response.body)
  /\ selectedSame' = (selectedSame /\ ~Truthy(response))   \* the response holds new objects
  /\ inflight' = Done(inflight, r)
  /\ uncaught' = fetchProjectsError(~Threw(response))
  /\ lastOp' = Op("projects", Null, 0, Res(response))
  /\ track' = IF track.stage = "created"
              THEN IF Truthy(response) /\ track.id \in Ids(response.body)
                   THEN [track EXCEPT !.stage = "refreshed"] ELSE IdleTrack
              ELSE TrackOther(projects', bProjects)
  /\ UNCHANGED <<budget, panelVars, selectedProject, documents, messages, isLoading, timers, backendVars,
                 counterVars, deleted>>

\* Variant: a failed documents fetch empties the list.
SetDocumentsClearedOnError(prev, ok, response) == IF ok THEN response ELSE << >>

\* fetchProjectDocuments: try { response = await ...; if (response) setDocuments(response) } catch { log }
SetDocumentsFrom(prev, ok, response) == IF ok THEN response ELSE prev
\* catch (error) { console.error(...) }
fetchProjectDocumentsError(ok) == ""

\* Variant: the documents response also resets the thread.
fetchProjectDocumentsResumeClearingMessages(r, ok) ==
  LET response == getProjectDocumentsQuery(ok, r.data)
  IN
  /\ r.kind = "docs" /\ CanSettle(r, ok)
  /\ documents' = SetDocumentsFrom(documents, Truthy(response), response.body)
  /\ messages' = << >>
  /\ inflight' = Done(inflight, r)
  /\ uncaught' = fetchProjectDocumentsError(~Threw(response))
  /\ lastOp' = Op("documents", r.pid, 0, Res(response))
  /\ UNCHANGED <<budget, panelVars, projects, selectedProject, selectedSame, isLoading, timers,
                 backendVars, counterVars, deleted, track>>

fetchProjectDocumentsResume(r, ok) ==
  LET response == getProjectDocumentsQuery(ok, r.data)
  IN
  /\ r.kind = "docs" /\ CanSettle(r, ok)
  /\ documents' = SetDocumentsFrom(documents, Truthy(response), response.body)
  /\ inflight' = Done(inflight, r)
  /\ uncaught' = fetchProjectDocumentsError(~Threw(response))
  /\ lastOp' = Op("documents", r.pid, 0, Res(response))
  /\ UNCHANGED <<budget, panelVars, projects, selectedProject, selectedSame, messages, isLoading, timers,
                 backendVars, counterVars, deleted, track>>

\* Variant: the conversations are concatenated last to first.
RECURSIVE FlattenReversed(_)
FlattenReversed(response) ==
  IF response = << >> THEN << >>
  ELSE FlattenReversed(Tail(response)) \o Head(response).messages

\* response.flatMap(conversation => conversation.messages)
RECURSIVE Flatten(_)
Flatten(response) ==
  IF response = << >> THEN << >> ELSE Head(response).messages \o Flatten(Tail(response))

\* fetchChatHistory: try { response = await ...; if (response) setMessages(allMessages) } catch { log }
SetMessagesFrom(prev, ok, response) == IF ok THEN Flatten(response) ELSE prev
\* catch (error) { console.error(...) }
fetchChatHistoryError(ok) == ""

fetchChatHistoryResume(r, ok) ==
  LET response == getChatHistory(ok, r.data)
  IN
  /\ r.kind = "history" /\ CanSettle(r, ok)
  /\ messages' = SetMessagesFrom(messages, Truthy(response), response.body)
  /\ inflight' = Done(inflight, r)
  /\ uncaught' = fetchChatHistoryError(~Threw(response))
  /\ lastOp' = Op("history", r.pid, Len(r.data), Res(response))
  /\ UNCHANGED <<budget, panelVars, projects, selectedProject, selectedSame, documents, isLoading, timers,
                 backendVars, counterVars, deleted, track>>

\* Variant: the assistant message is built without the reply's sources.
AssistantMessageNoSources(response) ==
  [id |-> response.conversation_id,
   projectId |-> response.message_metadata.project_id,
   content |-> response.response,
   role |-> "assistant",
   timestamp |-> response.message_metadata.timestamp,
   sources |-> << >>]

\* ChatPanel.handleSend after `await postChatQuery(payload)`
AssistantMessage(response) ==
  [id |-> response.conversation_id,
   projectId |-> response.message_metadata.project_id,
   content |-> response.response,
   role |-> "assistant",
   timestamp |-> response.message_metadata.timestamp,
   sources |-> response.sources]

\* Variant: a failed query puts an error message into the thread.
MessagesAfterReplyWithError(prev, ok, response) ==
  IF ok /\ response.success
  THEN Append(prev, [id |-> response.conversation_id,
                     projectId |-> response.message_metadata.project_id,
                     content |-> response.response, role |-> "assistant",
                     timestamp |-> response.message_metadata.timestamp,
                     sources |-> response.sources])
  ELSE Append(prev, [id |-> 0, projectId |-> Null, content |-> "error",
                     role |-> "assistant", timestamp |-> 0, sources |-> << >>])

\* if (response.success) setMessages(prev => [...prev, message]); a rejection
\* leaves handleSend at the await.
MessagesAfterReply(prev, ok, response) ==
  IF ok /\ response.success THEN Append(prev, AssistantMessage(response)) ELSE prev

\* setIsLoading(false) on both branches after the await; not reached on a rejection.
LoadingAfterReply(prev, ok) == IF ok THEN FALSE ELSE prev

ReplyResult(r, response) ==
  IF Threw(response) THEN "rejected"
  ELSE IF ~Truthy(response) THEN "falsy"
  ELSE IF response.body[1].success THEN "success" ELSE "failure"

\* There is no try/catch around the await: a rejection (and a read of
\* response.success on a null result) leaves handleSend with the error.
handleSendResume(r, ok) ==
  LET response == postChatQuery(ok, r.data)
  IN
  /\ r.kind = "chat" /\ CanSettle(r, ok)
  /\ messages' = MessagesAfterReply(messages, Truthy(response),
                                    IF Truthy(response) THEN response.body[1] ELSE << >>)
  /\ isLoading' = LoadingAfterReply(isLoading, Truthy(response))
  /\ inflight' = Done(inflight, r)
  /\ uncaught' = IF Truthy(response) THEN "" ELSE "handleSend"
  /\ lastOp' = Op("reply", r.pid, 0, ReplyResult(r, response))
  /\ UNCHANGED <<budget, panelVars, projects, selectedProject, selectedSame, documents, timers, backendVars,
                 counterVars, deleted, track>>

\* Variant: the list is refreshed whatever the outcome of the create.
RefreshAlways(ok) == <<Request("list", Null, "")>>
\* handleCreateProject after `await AddProjects(newProject)`: if (response) fetchProjects()
RefreshAfterCreate(ok) == IF ok THEN <<Request("list", Null, "")>> ELSE << >>

\* The create request is answered (or fails) and handleCreateProject resumes.
handleCreateProjectResume(r, ok) ==
  LET response == AddProjects(ok, <<[id |-> bNextProject, file_count |-> 0]>>)
  IN
  /\ r.kind = "create"
  /\ bProjects' = BackendCreated(ok)
  /\ bNextProject' = IF ok THEN bNextProject + 1 ELSE bNextProject
  /\ inflight' = Dispatch(Done(inflight, r), RefreshAfterCreate(Truthy(response)))
  /\ uncaught' = IF Threw(response) THEN "handleCreateProject" ELSE ""
  /\ lastOp' = Op("created", IF ok THEN bNextProject ELSE Null, 0, Res(response))
  /\ track' = IF track.stage = "submitted"
              THEN IF ok THEN [track EXCEPT !.stage = "created", !.id = bNextProject]
                   ELSE IdleTrack
              ELSE TrackOther(projects, bProjects')
  /\ UNCHANGED <<budget, panelVars, appVars, timers, bDocs, bHistory, bNextId, counterVars, deleted>>

\* Variant: a failed delete puts the project back.
ProjectsRestoredOnFailure(prev, ok, projectId) ==
  IF ok THEN prev ELSE Append(prev, [id |-> projectId, file_count |-> 0])

\* handleProjectDelete keeps the promise of DeleteProjects in an unused constant:
\* its settling, fulfilled or rejected, runs no code of the application.
ProjectsAfterDeleteSettled(prev, ok, projectId) == prev
DocumentsAfterDeleteSettled(prev, ok, projectId) == prev
MessagesAfterDeleteSettled(prev, ok, projectId) == prev

\* The delete request is answered (or fails).
DeleteProjectsSettled(r, ok) ==
  /\ r.kind = "delete"
  /\ ok => r.pid \in Ids(bProjects)
  /\ bProjects' = BackendDeleted(ok, r.pid)
  /\ bDocs' = IF ok THEN [bDocs EXCEPT ![r.pid] = << >>] ELSE bDocs
  /\ bHistory' = IF ok THEN [bHistory EXCEPT ![r.pid] = << >>] ELSE bHistory
  /\ projects' = ProjectsAfterDeleteSettled(projects, ok, r.pid)
  /\ documents' = DocumentsAfterDeleteSettled(documents, ok, r.pid)
  /\ messages' = MessagesAfterDeleteSettled(messages, ok, r.pid)
  /\ inflight' = Done(inflight, r)
  /\ uncaught' = IF Threw(DeleteProjects(ok, << >>)) THEN "DeleteProjects" ELSE ""
  /\ lastOp' = Op("deleteSettled", r.pid, 0, Res(DeleteProjects(ok, << >>)))
  /\ track' = TrackOther(projects', bProjects')
  /\ UNCHANGED <<budget, panelVars, selectedProject, selectedSame, isLoading, timers, bNextProject, bNextId,
                 counterVars, deleted>>

\* handleFileUpload never awaits the promise of uploadDocumentQuery either.
uploadDocumentQuerySettled(r, ok) ==
  LET doc == [id |-> bNextId, projectId |-> r.pid, filename |-> r.arg, status |-> "ready"]
  IN /\ r.kind = "upload"
     /\ ok => r.pid \in Ids(bProjects)
     /\ bProjects' = BackendUploaded(ok, r.pid)
     /\ bDocs' = IF ok THEN [bDocs EXCEPT ![r.pid] = Append(@, doc)] ELSE bDocs
     /\ bNextId' = IF ok THEN bNextId + 1 ELSE bNextId
     /\ inflight' = Done(inflight, r)
     /\ uncaught' = IF Threw(uploadDocumentQuery(ok, <<doc>>)) THEN "uploadDocumentQuery" ELSE ""
     /\ lastOp' = Op("uploadSettled", r.pid, 0, Res(uploadDocumentQuery(ok, <<doc>>)))
     /\ track' = TrackOther(projects, bProjects')
     /\ UNCHANGED <<budget, panelVars, appVars, timers, bHistory, bNextProject, counterVars, deleted>>

\* ------------------------------------------------------------ specification
\* User events
Select == \E i \in DOMAIN projects : handleProjectSelect(i)
Delete == \E i \in DOMAIN projects : handleProjectDelete(i)
Create == \E name \in ProjectNames : handleCreateProject(name)
Drop == \E n \in 1..MaxFiles : handleFileUpload(n)
DropNothing == handleFileUploadEmpty
DeleteDocument == \E k \in DOMAIN documents : onClickDeleteDocument(k)
Send == \E inputMessage \in Inputs : handleSend(inputMessage)
SourceClick == \E k \in DOMAIN messages : handleSourceClick(k)
ClosePanel == onClose
\* Timers
Timer == \E ids \in timers : uploadTimer(ids)
\* The backend answers a pending request
AnswerList == \E r \in BagToSet(inflight) : BackendList(r)
AnswerDocs == \E r \in BagToSet(inflight) : BackendDocs(r)
AnswerHistory == \E r \in BagToSet(inflight) : BackendHistory(r)
AnswerChat ==
  \E r \in BagToSet(inflight), success \in BOOLEAN, sources \in SourceChoices :
    BackendChat(r, success, sources)
\* A pending request settles and its continuation runs
ProjectsArrive == \E r \in BagToSet(inflight), ok \in BOOLEAN : fetchProjectsResume(r, ok)
DocumentsArrive ==
  \E r \in BagToSet(inflight), ok \in BOOLEAN : fetchProjectDocumentsResume(r, ok)
HistoryArrives == \E r \in BagToSet(inflight), ok \in BOOLEAN : fetchChatHistoryResume(r, ok)
ReplyArrives == \E r \in BagToSet(inflight), ok \in BOOLEAN : handleSendResume(r, ok)
CreateSettles == \E r \in BagToSet(inflight), ok \in BOOLEAN : handleCreateProjectResume(r, ok)
DeleteSettles == \E r \in BagToSet(inflight), ok \in BOOLEAN : DeleteProjectsSettled(r, ok)
UploadSettles == \E r \in BagToSet(inflight), ok \in BOOLEAN : uploadDocumentQuerySettled(r, ok)

Next ==
  \/ Select
  \/ Delete
  \/ Create
  \/ Drop
  \/ DropNothing
  \/ DeleteDocument
  \/ Send
  \/ SourceClick
  \/ ClosePanel
  \/ Timer
  \/ AnswerList
  \/ AnswerDocs
  \/ AnswerHistory
  \/ AnswerChat
  \/ ProjectsArrive
  \/ DocumentsArrive
  \/ HistoryArrives
  \/ ReplyArrives
  \/ CreateSettles
  \/ DeleteSettles
  \/ UploadSettles

Spec == Init /\ [][Next]_vars

\* The runs that start with project 1 opened.
SpecThread == InitThread /\ [][Next]_vars


\* ================================================================ properties
Last(s) == s[Len(s)]
IsAppend(new, old) == Len(new) = Len(old) + 1 /\ SubSeq(new, 1, Len(old)) = old
OfProject(s, p) == {k \in DOMAIN s : s[k].projectId = p}

\* C1 (as claimed): once handleProjectDelete(P) has run, the project list holds
\* no project with id P and the documents and messages lists hold no record of
\* project P, whatever responses arrive afterwards.
C1_DeletedStaysAbsent ==
  \A p \in deleted :
    /\ p \notin Ids(projects)
    /\ OfProject(documents, p) = {}
    /\ OfProject(messages, p) = {}

\* C2 (as claimed): the response of a documents or history fetch issued for a
\* project that is no longer the selected one changes neither the documents nor
\* the messages.
C2_StaleFetchDiscarded ==
  [][\A r \in BagToSet(inflight) :
       ( /\ selectedProject \notin {Null, r.pid}
         /\ \E ok \in BOOLEAN :
              fetchProjectDocumentsResume(r, ok) \/ fetchChatHistoryResume(r, ok) )
       => (documents' = documents /\ messages' = messages)]_vars

\* C3 (as claimed): a drop of n files dispatches n upload requests, one for
\* each file of the drop.
C3_OneRequestPerFile ==
  [][\A n \in 1..MaxFiles :
       handleFileUpload(n) =>
         /\ BagCardinality(inflight') = BagCardinality(inflight) + n
         /\ \A k \in 1..n :
              BagIn(Request("upload", selectedProject, Files(n)[k].name), inflight')]_vars

\* C4: a send appends exactly one user message (of the selected project, with
\* the entered text) in the step that dispatches the query; a reply with
\* success = true appends exactly one assistant message whose sources, content,
\* project id and timestamp are those of the reply.
C4_SendAndReplyAppend ==
  [][ /\ \A inputMessage \in Inputs :
           handleSend(inputMessage) =>
             /\ IsAppend(messages', messages)
             /\ Last(messages').role = "user"
             /\ Last(messages').projectId = selectedProject
             /\ Last(messages').content = inputMessage
             /\ BagCardinality(inflight') = BagCardinality(inflight) + 1
             /\ BagIn(Request("chat", selectedProject, inputMessage), inflight')
      /\ \A r \in BagToSet(inflight) :
           (handleSendResume(r, TRUE) /\ r.data[1].success) =>
             /\ IsAppend(messages', messages)
             /\ Last(messages').role = "assistant"
             /\ Last(messages').sources = r.data[1].sources
             /\ Last(messages').content = r.data[1].response
             /\ Last(messages').projectId = r.data[1].message_metadata.project_id
             /\ Last(messages').timestamp = r.data[1].message_metadata.timestamp ]_vars

\* C4 witness: a successful reply carrying sources has arrived; the thread ends
\* with the user message of the send followed by the assistant message.
C4_Witness ==
  /\ lastOp.op = "reply" /\ lastOp.res = "success"
  /\ Len(messages) >= 2
  /\ messages[Len(messages) - 1].role = "user" /\ messages[Len(messages) - 1].id < 0
  /\ Last(messages).role = "assistant" /\ Last(messages).sources = <<"s1">>

\* C5: when the query fails (rejected, or success = false) the message list is
\* left as it is and no request is dispatched.
C5_FailedQueryLeavesThread ==
  [][\A r \in BagToSet(inflight), ok \in BOOLEAN :
       (handleSendResume(r, ok) /\ (ok => ~r.data[1].success)) =>
         /\ messages' = messages
         /\ inflight' = Done(inflight, r)]_vars

\* C5 witness: a query of the selected project has failed and its user message
\* is the last message of the thread.
C5_Witness ==
  /\ lastOp.op = "reply" /\ lastOp.res = "failure"
  /\ messages # << >>
  /\ Last(messages).role = "user" /\ Last(messages).id < 0
  /\ Pending("chat") = {}

\* C6 (as claimed): isLoading is true exactly while a chat query awaits its reply.
C6_LoadingIffAwaiting == isLoading <=> (Pending("chat") # {})

\* C7: the history response replaces the message list by the concatenation of
\* the conversations' messages: message j of conversation k lands at position
\* (number of messages of the conversations before k) + j, and nothing else is
\* in the list.
RECURSIVE MessagesBefore(_, _)
MessagesBefore(convs, k) ==
  IF k <= 1 THEN 0 ELSE MessagesBefore(convs, k - 1) + Len(convs[k - 1].messages)

C7_HistoryFlattened ==
  [][\A r \in BagToSet(inflight) :
       fetchChatHistoryResume(r, TRUE) =>
         /\ Len(messages') = MessagesBefore(r.data, Len(r.data) + 1)
         /\ \A k \in DOMAIN r.data : \A j \in DOMAIN r.data[k].messages :
              messages'[MessagesBefore(r.data, k) + j] = r.data[k].messages[j]]_vars

\* C7 witness: a history of several conversations has been applied and the
\* list is not in timestamp order.
C7_Witness ==
  /\ lastOp.op = "history" /\ lastOp.res = "ok" /\ lastOp.n >= 2
  /\ Len(messages) >= 3
  /\ \E i, j \in DOMAIN messages : i < j /\ messages[i].timestamp > messages[j].timestamp

\* C8 (as claimed): create, refresh, delete of the created project, with no other
\* mutation in between, leaves the project list as it was before the creation.
C8_CreateDeleteRestores == track.stage = "deleted" => projects = track.before

\* C8 (amended): the same, when the local list equalled the backend's list at
\* the time the create was submitted.
C8_CreateDeleteRestoresInSync ==
  (track.stage = "deleted" /\ track.sync) => projects = track.before

\* C8 witness: the created project was listed and deleted again; the list is
\* the non-empty list of before.
C8_Witness ==
  /\ track.stage = "deleted" /\ track.sync
  /\ track.id \in deleted
  /\ projects = track.before /\ projects # << >>

\* C9: deleting the selected project clears the selection; deleting another
\* project leaves it.
C9_DeleteSelection ==
  [][\A i \in DOMAIN projects :
       handleProjectDelete(i) =>
         selectedProject' = IF selectedProject = projects[i].id THEN Null
                            ELSE selectedProject]_vars

\* C9 witness: the selected project has just been deleted.
C9_Witness ==
  /\ lastOp.op = "delete" /\ lastOp.res = "selected"
  /\ selectedProject = Null

\* C10: the delete step removes the project, its documents and its messages and
\* dispatches the delete request; the settling of that request, fulfilled or
\* rejected, changes none of the three lists.
C10_OptimisticDelete ==
  [][ /\ \A i \in DOMAIN projects :
           handleProjectDelete(i) =>
             /\ projects[i].id \notin Ids(projects')
             /\ OfProject(documents', projects[i].id) = {}
             /\ OfProject(messages', projects[i].id) = {}
             /\ CopiesIn(Request("delete", projects[i].id, ""), inflight')
                  = CopiesIn(Request("delete", projects[i].id, ""), inflight) + 1
      /\ \A r \in BagToSet(inflight), ok \in BOOLEAN :
           DeleteProjectsSettled(r, ok) =>
             /\ projects' = projects
             /\ documents' = documents
             /\ messages' = messages ]_vars

\* C10 witness: the delete request has failed, the backend still has the
\* project, the local list does not.
C10_Witness ==
  /\ lastOp.op = "deleteSettled" /\ lastOp.res = "err"
  /\ lastOp.pid \in Ids(bProjects)
  /\ lastOp.pid \notin Ids(projects)

\* C11: the documents response writes the documents list (the response replaces
\* it) and nothing else of the application state; the history response writes
\* the messages list (the flattened response replaces it) and nothing else.
\* Both results are independent of the state the response meets, hence of the
\* order in which the two responses arrive.
C11_DisjointSlices ==
  [][\A r \in BagToSet(inflight) :
       /\ fetchProjectDocumentsResume(r, TRUE) =>
            /\ documents' = r.data
            /\ UNCHANGED <<messages, projects, selectedProject, isLoading, panelVars>>
       /\ fetchChatHistoryResume(r, TRUE) =>
            /\ messages' = Flatten(r.data)
            /\ UNCHANGED <<documents, projects, selectedProject, isLoading, panelVars>>]_vars

\* C11 witness: the history response of the selected project arrived before
\* its documents response (the reverse of the order of the requests); the thread
\* and the documents list are the backend's.
C11_Witness ==
  /\ lastOp.op = "documents" /\ lastOp.res = "ok" /\ lastOp.pid = selectedProject
  /\ Pending("history") = {}
  /\ messages = Flatten(bHistory[selectedProject]) /\ messages # << >>
  /\ documents = bDocs[selectedProject] /\ documents # << >>

\* C12: a create request is dispatched only for a name that is non-empty after
\* trimming, and that step leaves the project list alone; the settling of the
\* create leaves the project list alone as well, issues exactly one list request
\* when the create succeeded and no request when it failed.  The list changes
\* only in the step in which a list response arrives.
C12_CreateRefreshes ==
  [][ /\ \A name \in ProjectNames :
           handleCreateProject(name) =>
             /\ Trim(name) # << >>
             /\ projects' = projects
             /\ inflight' = inflight (+) SetToBag({Request("create", Null, name)})
      /\ \A r \in BagToSet(inflight), ok \in BOOLEAN :
           handleCreateProjectResume(r, ok) =>
             /\ projects' = projects
             /\ inflight' = IF ok THEN Done(inflight, r) (+) SetToBag({Request("list", Null, "")})
                            ELSE Done(inflight, r) ]_vars

\* C12 witness: the refresh issued after a successful create has returned and
\* the created project is in the list.
C12_Witness ==
  /\ track.stage = "refreshed"
  /\ lastOp.op = "projects" /\ lastOp.res = "ok"
  /\ track.id \in Ids(projects) /\ track.id \notin Ids(track.before)

\* C13: a drop of n files appends exactly n records to the documents list, the
\* k-th for the k-th file, each of the drop's project and 'processing', in the
\* step that dispatches the upload request; the settling of that request,
\* fulfilled or rejected, leaves the documents list alone.
C13_OptimisticDocuments ==
  [][ /\ \A n \in 1..MaxFiles :
           handleFileUpload(n) =>
             /\ Len(documents') = Len(documents) + n
             /\ SubSeq(documents', 1, Len(documents)) = documents
             /\ \A k \in 1..n :
                  /\ documents'[Len(documents) + k].projectId = selectedProject
                  /\ documents'[Len(documents) + k].status = "processing"
                  /\ documents'[Len(documents) + k].filename = Files(n)[k].name
             /\ \A i, j \in DOMAIN documents' : documents'[i].id = documents'[j].id => i = j
             /\ BagCardinality(inflight') > BagCardinality(inflight)
      /\ \A r \in BagToSet(inflight), ok \in BOOLEAN :
           uploadDocumentQuerySettled(r, ok) => documents' = documents ]_vars

\* C13 witness: two files have just been dropped on a project whose documents
\* were listed; the list ends with the two 'processing' records.
C13_Witness ==
  /\ lastOp.op = "upload" /\ lastOp.n = 2
  /\ Len(documents) >= 3
  /\ documents[Len(documents) - 1].status = "processing"
  /\ documents[Len(documents) - 1].filename = "f1"
  /\ Last(documents).status = "processing" /\ Last(documents).filename = "f2"
  /\ Pending("upload") # {}

\* C14 (as claimed): a record that still carries its optimistic id (ids made by
\* the client are negative) is 'processing' and its file is not stored by the
\* backend: once the backend has stored the file the record carries the
\* backend's id, and it is 'ready' only when the backend has stored the file.
C14_ReconciledWithBackend ==
  \A k \in DOMAIN documents :
    documents[k].id < 0 =>
      /\ documents[k].status = "processing"
      /\ \A d \in {bDocs[documents[k].projectId][j] : j \in DOMAIN bDocs[documents[k].projectId]} :
           d.filename # documents[k].filename

\* C15 (as claimed): a click on the delete button of a document removes that
\* document from the documents list and changes nothing else of the lists and
\* the selection.
C15_DeleteDocumentRemoves ==
  [][\A k \in DOMAIN documents :
       onClickDeleteDocument(k) =>
         /\ documents' = SelectSeq(documents, LAMBDA d : d.id # documents[k].id)
         /\ UNCHANGED <<projects, messages, selectedProject>>]_vars

\* C16 (as claimed): a failed list-projects request leaves the project list as
\* it was and no error escapes fetchProjects.
C16_ListFailureHandled ==
  [][\A r \in BagToSet(inflight) :
       fetchProjectsResume(r, FALSE) => (projects' = projects /\ uncaught' = "")]_vars

\* C17: a click on a message's source link makes that message's sources the
\* panel's content and opens the panel; closing the panel changes the open flag
\* only; no other step changes the panel's content, so it always is the source
\* list of the most recently clicked message.
C17_SourcesOfLastClick ==
  [][ /\ \A k \in DOMAIN messages :
           handleSourceClick(k) =>
             (currentSources' = messages[k].sources /\ isSourcePanelOpen')
      /\ onClose => (currentSources' = currentSources /\ ~isSourcePanelOpen')
      /\ (~ \E k \in DOMAIN messages : handleSourceClick(k)) =>
             currentSources' = currentSources
      /\ (~ onClose /\ ~ \E k \in DOMAIN messages : handleSourceClick(k)) =>
             isSourcePanelOpen' = isSourcePanelOpen ]_vars

\* C17 witness: the sources of one message were clicked and then those of
\* another message with a different source list; the panel shows the list of
\* the second click.
C17_Witness ==
  /\ lastOp.op = "sourceClick" /\ lastOp.res = "replaced"
  /\ isSourcePanelOpen
  /\ currentSources = messages[lastOp.n].sources
  /\ \E k \in DOMAIN messages :
       messages[k].sources # << >> /\ messages[k].sources # currentSources

KindCount(b, kind) ==
  BagCardinality([r \in {x \in BagToSet(b) : x.kind = kind} |-> b[r]])

\* The steps of C18.
C18_Steps ==
  [][ /\ \A i \in DOMAIN projects :
           handleProjectSelect(i) =>
             inflight' = IF selectedProject # projects[i].id \/ ~selectedSame
                         THEN inflight (+) SetToBag({Request("docs", projects[i].id, ""),
                                                     Request("history", projects[i].id, "")})
                         ELSE inflight
      /\ \A i \in DOMAIN projects :
           handleProjectDelete(i) =>
             inflight' = inflight (+) SetToBag({Request("delete", projects[i].id, "")})
      /\ (~ \E i \in DOMAIN projects : handleProjectSelect(i)) =>
             /\ KindCount(inflight', "docs") <= KindCount(inflight, "docs")
             /\ KindCount(inflight', "history") <= KindCount(inflight, "history")
      /\ (~ \E r \in BagToSet(inflight) : handleCreateProjectResume(r, TRUE)) =>
             KindCount(inflight', "list") <= KindCount(inflight, "list") ]_vars

\* C18: at load exactly one request, a list-projects request, is pending.  A
\* select that changes the selection to project P dispatches exactly one
\* documents request and one history request, both for P, and nothing else; a
\* select that does not change the selection dispatches nothing; a delete that
\* clears the selection dispatches the delete request only; no other step
\* dispatches a documents or a history request.
C18_FetchesOnSelection ==
  (inflight = SetToBag({Request("list", Null, "")})) /\ C18_Steps

\* C18 witness: the selection has just changed from one project to another, the
\* first project's fetches being answered; one documents and one history
\* request are pending, both for the new selection.
C18_Witness ==
  /\ lastOp.op = "select" /\ lastOp.res = "changed" /\ lastOp.pid = selectedProject
  /\ actions = 2
  /\ Pending("docs") = {Request("docs", selectedProject, "")}
  /\ Pending("history") = {Request("history", selectedProject, "")}
  /\ KindCount(inflight, "docs") = 1 /\ KindCount(inflight, "history") = 1

\* C19: a failed documents fetch or history fetch leaves the documents, the
\* messages, the project list, the selection and the loading flag as they were,
\* and no error escapes the fetch function.
C19_FailedFetchLeavesState ==
  [][\A r \in BagToSet(inflight) :
       (fetchProjectDocumentsResume(r, FALSE) \/ fetchChatHistoryResume(r, FALSE)) =>
         /\ UNCHANGED <<documents, messages, projects, selectedProject, isLoading>>
         /\ uncaught' = "" ]_vars

\* C19 witness: the documents fetch of the newly selected project has failed;
\* the list still shows the documents of the project selected before.
C19_Witness ==
  /\ lastOp.op = "documents" /\ lastOp.res = "err" /\ lastOp.pid = selectedProject
  /\ uncaught = ""
  /\ documents # << >>
  /\ \A k \in DOMAIN documents : documents[k].projectId # selectedProject

\* C20: each of the eight HTTP access functions returns the reply body when
\* the request succeeds and throws when it fails, and nothing else; the
\* backend's bodies being truthy, no caller ever takes its falsy-result branch,
\* and a failed request reaches the caller as an error (caught only by the
\* documents and the history fetch).
C20_ReturnOrRethrow ==
  /\ \A body \in {<< >>, bProjects} \cup {r.data : r \in Pending("list")} :
       /\ \A ok \in BOOLEAN :
            LET outcomes == {getProjectsQuery(ok, body), AddProjects(ok, body),
                             DeleteProjects(ok, body), postChatQuery(ok, body),
                             getChatHistory(ok, body), getProjectDocumentsQuery(ok, body),
                             uploadDocumentQuery(ok, body), deleteDocument(ok, body)}
            IN outcomes = {IF ok THEN Returned(body) ELSE Thrown}
  /\ lastOp.res # "falsy"
  /\ (lastOp.res = "err" /\ lastOp.op \notin {"upload", "deleteDocument"}) =>
       uncaught = CASE lastOp.op = "projects" -> "fetchProjects"
                    [] lastOp.op = "created" -> "handleCreateProject"
                    [] lastOp.op = "deleteSettled" -> "DeleteProjects"
                    [] lastOp.op = "uploadSettled" -> "uploadDocumentQuery"
                    [] OTHER -> ""

\* C20 witness: the create request has failed; the error left handleCreateProject
\* at the await, no refresh was issued and the list is unchanged.
C20_Witness ==
  /\ lastOp.op = "created" /\ lastOp.res = "err"
  /\ uncaught = "handleCreateProject"
  /\ Pending("list") = {} /\ Pending("create") = {}
  /\ projects = bProjects /\ projects # << >>

\* C21 (as claimed): whenever a project is selected, a project with its id is
\* in the local project list.
C21_SelectedIsListed == selectedProject # Null => selectedProject \in Ids(projects)

\* C22 (as claimed): while a project is selected, every message of the list
\* handed to the chat view is a message of that project.
C22_MessagesOfSelection ==
  selectedProject # Null =>
    \A k \in DOMAIN messages : messages[k].projectId = selectedProject

\* C23 (as claimed): a user message appended by a send (its id is made by the
\* client) and belonging to the selected project is still in the list after
\* every step that leaves that project selected.
C23_SentMessageStays ==
  [][\A k \in DOMAIN messages :
       ( /\ messages[k].role = "user" /\ messages[k].id < 0
         /\ messages[k].projectId = selectedProject
         /\ selectedProject' = selectedProject )
       => \E j \in DOMAIN messages' : messages'[j] = messages[k]]_vars

\* C24 (as claimed): while a project is selected, every document of the list
\* handed to the project panel's file list is a document of that project.
C24_DocumentsOfSelection ==
  selectedProject # Null =>
    \A k \in DOMAIN documents : documents[k].projectId = selectedProject

\* C25: after every step at most one chat query is in flight, and isLoading is
\* true while one is; a send is dispatched only for an input that is non-blank
\* after trimming, with isLoading false and no query in flight, and it sets
\* isLoading.
C25_OneQueryInFlight ==
  [][ /\ KindCount(inflight', "chat") <= 1
      /\ KindCount(inflight', "chat") = 1 => isLoading'
      /\ \A inputMessage \in Inputs :
           handleSend(inputMessage) =>
             /\ Trim(inputMessage) # << >>
             /\ ~isLoading
             /\ KindCount(inflight, "chat") = 0
             /\ isLoading' ]_vars

\* C25 witness: a query is in flight, the flag is set, and a further user
\* action is possible but not a send: the non-blank input cannot be sent.
C25_Witness ==
  /\ lastOp.op = "send"
  /\ isLoading
  /\ KindCount(inflight, "chat") = 1
  /\ selectedProject # Null /\ actions < budget
  /\ ENABLED Select
  /\ \A inputMessage \in Inputs : ~ENABLED handleSend(inputMessage)

\* C26: a drop of n files on project P adds n to the file_count of P and leaves
\* the other projects, the order of the list, the selection and the messages as
\* they were; for a project id that is not in the list the update changes no
\* count.
C26_FileCount ==
  [][ /\ \A n \in 1..MaxFiles :
           handleFileUpload(n) =>
             /\ DOMAIN projects' = DOMAIN projects
             /\ \A k \in DOMAIN projects :
                  /\ projects'[k].id = projects[k].id
                  /\ projects'[k].file_count =
                       projects[k].file_count + (IF projects[k].id = selectedProject THEN n ELSE 0)
             /\ UNCHANGED <<selectedProject, messages>>
      /\ \A p \in ProjectIds \ Ids(projects), n \in 1..MaxFiles :
           BumpFileCount(projects, p, n) = projects ]_vars

\* C26 witness: two files were dropped on project 1; its count went from 1 to 3,
\* project 2's is still 1.
C26_Witness ==
  /\ lastOp.op = "upload" /\ lastOp.n = 2 /\ lastOp.pid = 1
  /\ Len(projects) = 2
  /\ projects[1].id = 1 /\ projects[1].file_count = 3
  /\ projects[2].id = 2 /\ projects[2].file_count = 1

\* C27: the timer of an upload leaves the length and the order of the documents
\* list alone; a record of that upload that is in the list was 'processing' and
\* becomes 'ready' with nothing else changed; every other record is unchanged.
C27_TimerMarksReady ==
  [][\A ids \in timers :
       uploadTimer(ids) =>
         /\ DOMAIN documents' = DOMAIN documents
         /\ \A k \in DOMAIN documents :
              IF documents[k].id \in ids
              THEN /\ documents[k].status = "processing"
                   /\ documents'[k] = [documents[k] EXCEPT !.status = "ready"]
              ELSE documents'[k] = documents[k]
         /\ UNCHANGED <<projects, messages, selectedProject>>]_vars

\* C27 witness: the records of the upload were replaced by a documents response
\* before the timer fired; the timer has fired and the list holds the backend's
\* records only.
C27_Witness ==
  /\ lastOp.op = "timer" /\ lastOp.n >= 1
  /\ timers = {}
  /\ documents # << >>
  /\ \A k \in DOMAIN documents : documents[k].id > 0

\* C28: while the source panel is open its content is non-empty.
C28_OpenPanelHasSources == isSourcePanelOpen => currentSources # << >>

\* C28 witness: the panel was opened on the sources of a message.
C28_Witness ==
  /\ lastOp.op = "sourceClick"
  /\ isSourcePanelOpen
  /\ currentSources = messages[lastOp.n].sources /\ currentSources # << >>

\* C29: a drop without accepted files dispatches no request, starts no timer and
\* leaves the documents list and the project list (hence every file_count) as
\* they were.
C29_EmptyDrop ==
  [][handleFileUploadEmpty =>
       UNCHANGED <<inflight, timers, documents, projects, selectedProject, messages>>]_vars

\* C29 witness: an empty drop on a selected project whose documents are listed.
C29_Witness ==
  /\ lastOp.op = "upload" /\ lastOp.n = 0 /\ lastOp.res = "err"
  /\ uncaught = "handleFileUpload"
  /\ Pending("upload") = {}
  /\ documents # << >>

====
